---- MODULE Spec2Model ----
(***************************************************************************)
(* Model of the materials router (src/routers/materials.js): the           *)
(* process-wide materialsCache, the SteelMaterial collection it mirrors,   *)
(* and the request handlers that read and write both.                      *)
(*                                                                         *)
(* A handler is a sequence of steps separated by its awaited store calls.  *)
(* Each action below is one awaited store call executing in the store      *)
(* together with the synchronous handler code that surrounds it and does   *)
(* not touch the cache, or the synchronous continuation that touches the   *)
(* cache and sends the response.                                           *)
(***************************************************************************)
EXTENDS Integers, Sequences, FiniteSets, TLC

\* ------------------------------------------------------------------ bounds
MaxIds == 2
MaxSyncs == 2

\* -------------------------------------------------------------- value sets
\* ObjectIds the store hands out, in the order it hands them out.
IdNames == <<"i1", "i2", "i3", "i4">>
ObjectId(n) == IdNames[n]
AllIds == {IdNames[i] : i \in 1..(IF MaxIds < Len(IdNames) THEN MaxIds ELSE Len(IdNames))}
Specs == {"a", "b"}
WpmVals == {1, 2}
Products == {"p"}
Slots == {1, 2}

\* /^[0-9a-fA-F]{24}$/.test(id): the id-shaped tokens of the model.
isObjectId(id) == id \in {IdNames[i] : i \in DOMAIN IdNames}

\* ------------------------------------------------------------- JS Map, Array
EmptyMap == [k \in {} |-> k]
MapHas(m, k) == k \in DOMAIN m
MapSet(m, k, v) == [x \in (DOMAIN m) \cup {k} |-> IF x = k THEN v ELSE m[x]]
MapDelete(m, k) == [x \in (DOMAIN m) \ {k} |-> m[x]]
MapValues(m) == {m[k] : k \in DOMAIN m}

Range(s) == {s[i] : i \in DOMAIN s}
Max(S) == CHOOSE x \in S : \A y \in S : y <= x
Min(S) == CHOOSE x \in S : \A y \in S : x <= y

\* Array.prototype.findIndex by _id: the first index, 0 for -1.
findIndex(arr, id) ==
  IF \E i \in DOMAIN arr : arr[i].id = id
  THEN Min({i \in DOMAIN arr : arr[i].id = id})
  ELSE 0

\* ------------------------------------------------------------------- store
\* The collection in natural order; an optional document is a sequence of
\* length 0 (null) or 1.
FindOneBySpec(st, spec) ==
  IF \E i \in DOMAIN st : st[i].spec = spec
  THEN <<st[Min({i \in DOMAIN st : st[i].spec = spec})]>>
  ELSE <<>>

FindById(st, id) ==
  IF \E i \in DOMAIN st : st[i].id = id
  THEN <<st[Min({i \in DOMAIN st : st[i].id = id})]>>
  ELSE <<>>

\* findById / findOne({spec}) chosen by the shape of the key.
FindByKey(st, key) ==
  IF isObjectId(key) THEN FindById(st, key) ELSE FindOneBySpec(st, key)

\* A query parameter the request leaves out.
Undefined == -2

\* parseInt and parseFloat of undefined or of a string that holds no number;
\* also what Math.ceil(total / 0) is written as here: in the JSON of a
\* response NaN and Infinity are both null.
NaN == -1

\* Schema validation run by save(): every path is required; the required
\* validator of a String path rejects the empty string, and the cast of a
\* Number path rejects NaN.
NumberFields == {"wpm", "method_calc", "initial_length", "trade_unit", "cat_product"}
Valid(doc) ==
  /\ doc.spec # ""
  /\ doc.product # ""
  /\ \A f \in NumberFields \cap DOMAIN doc : doc[f] # NaN

\* document.save() of a loaded document: $set of the modified paths on the
\* stored document with that _id.
ApplyMods(rec, doc, mods) ==
  [f \in DOMAIN rec |-> IF f \in mods THEN doc[f] ELSE rec[f]]

StoreUpdate(st, doc, mods) ==
  [i \in DOMAIN st |-> IF st[i].id = doc.id THEN ApplyMods(st[i], doc, mods) ELSE st[i]]

StoreRemoveIds(st, ids) == LET Keep(m) == m.id \notin ids IN SelectSeq(st, Keep)

\* deleteMany(query): the documents the query matches.
Matching(st, q) ==
  IF q.by = "all" THEN {st[i].id : i \in DOMAIN st}
  ELSE IF q.by = "ids" THEN {st[i].id : i \in {j \in DOMAIN st : st[j].id \in q.vals}}
  ELSE {st[i].id : i \in {j \in DOMAIN st : st[j].spec \in q.vals}}

\* ----------------------------------------------------------------- state
VARIABLES
  store,      \* the steel_materials collection, in natural order
  nextId,     \* ObjectIds handed out so far
  data,       \* materialsCache.data
  bySpec,     \* materialsCache.bySpec
  byId,       \* materialsCache.byId
  lastSync,   \* materialsCache.lastSync (0 is null)
  isLoaded,   \* materialsCache.isLoaded
  now,        \* the clock read by new Date()
  reqs,       \* per slot: the request at its await, or its response once done
  hist        \* what the last successful load built, while no store write followed

vars == <<store, nextId, data, bySpec, byId, lastSync, isLoaded, now, reqs, hist>>
cacheVars == <<data, bySpec, byId, lastSync, isLoaded>>

NoRequest == [op |-> "none", pc |-> "done", status |-> 0]
NoLoad == [clean |-> FALSE, data |-> <<>>, bySpec |-> EmptyMap, byId |-> EmptyMap]

\* The state a request saw when it arrived.
Pre == [store |-> store, data |-> data, bySpec |-> bySpec, byId |-> byId,
        lastSync |-> lastSync, isLoaded |-> isLoaded, hist |-> hist]

materialsCache ==
  [data |-> data, bySpec |-> bySpec, byId |-> byId,
   lastSync |-> lastSync, isLoaded |-> isLoaded]

Init ==
  /\ store = <<>>
  /\ nextId = 0
  /\ data = <<>>
  /\ bySpec = EmptyMap
  /\ byId = EmptyMap
  /\ lastSync = 0
  /\ isLoaded = FALSE
  /\ now = 1
  /\ reqs = [s \in Slots |-> NoRequest]
  /\ hist = NoLoad

\* A request may arrive at slot s: when seq, only while no other request is
\* in flight (requests do not overlap); else whenever the slot is free.
CanArrive(s, seq) ==
  /\ reqs[s] = NoRequest
  /\ seq => \A t \in Slots : reqs[t] = NoRequest

Await(s, r) == reqs' = [reqs EXCEPT ![s] = r]
Respond(s, resp) ==
  reqs' = [reqs EXCEPT ![s] = [resp EXCEPT !.pc = "done"]]

SetCache(c) ==
  /\ data' = c.data
  /\ bySpec' = c.bySpec
  /\ byId' = c.byId
  /\ lastSync' = c.lastSync
  /\ isLoaded' = c.isLoaded

\* ------------------------------------------------- loadCacheFromDB, /sync
\* materials.forEach(m => bySpec.set(m.spec, m)): a later element overwrites.
BuildBySpec(materials) ==
  [sp \in {materials[i].spec : i \in DOMAIN materials} |->
     materials[Max({i \in DOMAIN materials : materials[i].spec = sp})]]

BuildById(materials) ==
  [id \in {materials[i].id : i \in DOMAIN materials} |->
     materials[Max({i \in DOMAIN materials : materials[i].id = id})]]

\* A load that sets the new entries without clearing the two maps first.
LoadedCacheNoClear(c, materials, time) ==
  LET newSpec == BuildBySpec(materials)
      newId == BuildById(materials)
  IN [data |-> materials,
      bySpec |-> [sp \in (DOMAIN c.bySpec) \cup (DOMAIN newSpec) |->
                    IF sp \in DOMAIN newSpec THEN newSpec[sp] ELSE c.bySpec[sp]],
      byId |-> [id \in (DOMAIN c.byId) \cup (DOMAIN newId) |->
                  IF id \in DOMAIN newId THEN newId[id] ELSE c.byId[id]],
      lastSync |-> time, isLoaded |-> TRUE]

\* A load that pushes the scanned records onto data instead of replacing it.
LoadedCacheAppends(c, materials, time) ==
  [data |-> c.data \o materials, bySpec |-> BuildBySpec(c.data \o materials),
   byId |-> BuildById(c.data \o materials), lastSync |-> time, isLoaded |-> TRUE]

\* What a successful load assigns to materialsCache.
LoadedCache(c, materials, time) ==
  [data |-> materials, bySpec |-> BuildBySpec(materials), byId |-> BuildById(materials),
   lastSync |-> time, isLoaded |-> TRUE]

\* A catch block that leaves isLoaded as it was.
FailedCacheKeepsLoaded(c) == c

\* A catch block that also empties the cache.
FailedCacheResets(c) ==
  [data |-> <<>>, bySpec |-> EmptyMap, byId |-> EmptyMap, lastSync |-> 0, isLoaded |-> FALSE]

\* What the catch block of a failed load assigns.
FailedCache(c) == [c EXCEPT !.isLoaded = FALSE]

\* POST /sync up to the end of `await SteelMaterial.find({}).lean()`.
SyncFind(s, seq) ==
  /\ CanArrive(s, seq)
  /\ now <= MaxSyncs
  /\ \E ok \in BOOLEAN :
       Await(s, [op |-> "sync", pc |-> "found", status |-> 0, err |-> "", ok |-> ok,
                 materials |-> IF ok THEN store ELSE <<>>, ret |-> FALSE, time |-> 0,
                 pre |-> Pre])
  /\ UNCHANGED <<store, nextId, cacheVars, now, hist>>

\* The rest of loadCacheFromDB and the response of POST /sync.
SyncApply(s) ==
  /\ reqs[s].op = "sync"
  /\ reqs[s].pc = "found"
  /\ LET r == reqs[s] IN
     IF r.ok
     THEN /\ SetCache(LoadedCache(materialsCache, r.materials, now))
          /\ now' = now + 1
          /\ hist' = [clean |-> TRUE, data |-> data', bySpec |-> bySpec', byId |-> byId']
          /\ Respond(s, [r EXCEPT !.status = 200, !.ret = TRUE, !.time = now])
     ELSE /\ SetCache(FailedCache(materialsCache))
          /\ UNCHANGED <<now, hist>>
          /\ Respond(s, [r EXCEPT !.status = 500, !.ret = FALSE, !.err = "sync"])
  /\ UNCHANGED <<store, nextId>>

\* ------------------------------------------------------------ POST / (create)
CreateBodies ==
  [spec : Specs, wpm : WpmVals, product : Products]
    \cup {[spec |-> "", wpm |-> 1, product |-> "p"], [spec |-> "a", wpm |-> 1, product |-> ""]}

\* new SteelMaterial({...}) with the _id the store assigns.
\* `parseInt(x) || 0`, `parseFloat(x) || 0` of a field the body leaves out.
OrZero(body, f) == IF f \in DOMAIN body THEN body[f] ELSE 0

NewMaterial(body, id) ==
  [id |-> id, spec |-> body.spec, wpm |-> body.wpm, product |-> body.product,
   method_calc |-> OrZero(body, "method_calc"),
   initial_length |-> OrZero(body, "initial_length"),
   trade_unit |-> OrZero(body, "trade_unit"),
   cat_product |-> OrZero(body, "cat_product")]

\* The cache append of a create.
CachePush(c, m) ==
  [c EXCEPT !.data = Append(c.data, m),
            !.bySpec = MapSet(c.bySpec, m.spec, m),
            !.byId = MapSet(c.byId, m.id, m)]

\* The duplicate check of a create: the answer of findOne({ spec }).
CreateExisting(c, st, spec) == FindOneBySpec(st, spec)

\* POST / up to the end of `await SteelMaterial.findOne({ spec })`, and the
\* responses that follow it without a further store call.
CreateFindOne(s, seq) ==
  /\ CanArrive(s, seq)
  /\ \E body \in CreateBodies :
       LET r == [op |-> "create", pc |-> "findOne", status |-> 0, err |-> "", body |-> body,
                 material |-> <<>>, pre |-> Pre]
       IN IF body.spec = ""
          THEN Respond(s, [r EXCEPT !.status = 400])
          ELSE \/ Respond(s, [r EXCEPT !.status = 500, !.err = "StoreUnavailable"])
               \/ IF CreateExisting(materialsCache, store, body.spec) # <<>>
                  THEN Respond(s, [r EXCEPT !.status = 409])
                  ELSE Await(s, r)
  /\ UNCHANGED <<store, nextId, cacheVars, now, hist>>

\* A save that appends to the cache before the insert is known to succeed.
CreateSaveCacheFirst(s) ==
  /\ reqs[s].op = "create"
  /\ reqs[s].pc = "findOne"
  /\ LET r == reqs[s]
         material == NewMaterial(r.body, ObjectId(nextId + 1))
     IN IF ~Valid(NewMaterial(r.body, "new"))
        THEN /\ Respond(s, [r EXCEPT !.status = 500, !.err = "ValidationError"])
             /\ UNCHANGED <<store, nextId, hist, cacheVars>>
        ELSE \/ /\ Respond(s, [r EXCEPT !.status = 500, !.err = "StoreUnavailable"])
                /\ SetCache(IF isLoaded THEN CachePush(materialsCache, material)
                            ELSE materialsCache)
                /\ UNCHANGED <<store, nextId, hist>>
             \/ /\ nextId < MaxIds
                /\ store' = Append(store, material)
                /\ nextId' = nextId + 1
                /\ hist' = NoLoad
                /\ Await(s, [r EXCEPT !.pc = "saved", !.material = <<material>>])
                /\ UNCHANGED cacheVars
  /\ UNCHANGED now

\* `await material.save()`: validation, then the insert.
CreateSave(s) ==
  /\ reqs[s].op = "create"
  /\ reqs[s].pc = "findOne"
  /\ LET r == reqs[s]
         material == NewMaterial(r.body, ObjectId(nextId + 1))
     IN IF ~Valid(NewMaterial(r.body, "new"))
        THEN /\ Respond(s, [r EXCEPT !.status = 500, !.err = "ValidationError"])
             /\ UNCHANGED <<store, nextId, hist>>
        ELSE \/ /\ Respond(s, [r EXCEPT !.status = 500, !.err = "StoreUnavailable"])
                /\ UNCHANGED <<store, nextId, hist>>
             \/ /\ nextId < MaxIds
                /\ store' = Append(store, material)
                /\ nextId' = nextId + 1
                /\ hist' = NoLoad
                /\ Await(s, [r EXCEPT !.pc = "saved", !.material = <<material>>])
  /\ UNCHANGED <<cacheVars, now>>

\* A cache append that awaits between the push onto data and the two sets.
CreateCacheYields(s) ==
  /\ reqs[s].op = "create"
  /\ reqs[s].pc \in {"saved", "pushed"}
  /\ LET r == reqs[s] IN
       IF r.pc = "saved" /\ isLoaded
       THEN /\ data' = Append(data, r.material[1])
            /\ UNCHANGED <<bySpec, byId, lastSync, isLoaded>>
            /\ Await(s, [r EXCEPT !.pc = "pushed"])
       ELSE IF r.pc = "pushed"
       THEN /\ bySpec' = MapSet(bySpec, r.material[1].spec, r.material[1])
            /\ byId' = MapSet(byId, r.material[1].id, r.material[1])
            /\ UNCHANGED <<data, lastSync, isLoaded>>
            /\ Respond(s, [r EXCEPT !.status = 201])
       ELSE /\ UNCHANGED cacheVars
            /\ Respond(s, [r EXCEPT !.status = 201])
  /\ UNCHANGED <<store, nextId, now, hist>>

\* A cache append that does not look at isLoaded.
CreateCacheAlways(s) ==
  /\ reqs[s].op = "create"
  /\ reqs[s].pc = "saved"
  /\ LET r == reqs[s] IN
       /\ SetCache(CachePush(materialsCache, r.material[1]))
       /\ Respond(s, [r EXCEPT !.status = 201])
  /\ UNCHANGED <<store, nextId, now, hist>>

\* The cache append and the 201 response.
CreateCache(s) ==
  /\ reqs[s].op = "create"
  /\ reqs[s].pc = "saved"
  /\ LET r == reqs[s] IN
       /\ SetCache(IF isLoaded THEN CachePush(materialsCache, r.material[1])
                   ELSE materialsCache)
       /\ Respond(s, [r EXCEPT !.status = 201])
  /\ UNCHANGED <<store, nextId, now, hist>>

\* ------------------------------------------- PUT /:id, PATCH /:id (update)
Keys == AllIds \cup Specs
Verbs == {"put", "patch"}
\* The bodies after the conversions of lines 304-308 and 369-373: a number
\* field holds what parseFloat / parseInt made of it, NaN for a value that
\* holds no number.
UpdateBodies ==
  {[spec |-> sp] : sp \in Specs}
    \cup {[product |-> ""]}
    \cup {[wpm |-> w] : w \in WpmVals}
    \cup {[spec |-> "b", wpm |-> 2]}
    \cup {[wpm |-> NaN]}

\* Object.assign(material, updateData) of PUT; the key loop of PATCH.
Assign(doc, updateData) ==
  [f \in DOMAIN doc |-> IF f \in DOMAIN updateData THEN updateData[f] ELSE doc[f]]

\* The paths of the document the assignment modified.
ModifiedPaths(doc, updateData) ==
  {f \in (DOMAIN doc) \cap (DOMAIN updateData) : updateData[f] # doc[f]}

\* The cache update of PUT and PATCH.
CacheUpdate(c, m) ==
  LET oldSpec == IF MapHas(c.byId, m.id) THEN <<c.byId[m.id].spec>> ELSE <<>>
      specs1 == IF oldSpec # <<>> /\ oldSpec[1] # "" /\ oldSpec[1] # m.spec
                THEN MapDelete(c.bySpec, oldSpec[1])
                ELSE c.bySpec
      index == findIndex(c.data, m.id)
  IN [c EXCEPT !.data = IF index # 0 THEN [c.data EXCEPT ![index] = m]
                        ELSE Append(c.data, m),
               !.bySpec = MapSet(specs1, m.spec, m),
               !.byId = MapSet(c.byId, m.id, m)]

\* PUT/PATCH up to the end of the awaited findById / findOne, and the 404.
UpdateFind(s, seq) ==
  /\ CanArrive(s, seq)
  /\ \E verb \in Verbs, key \in Keys, body \in UpdateBodies :
       LET r == [op |-> verb, pc |-> "found", status |-> 0, err |-> "", key |-> key, body |-> body,
                 material |-> FindByKey(store, key), mods |-> {}, pre |-> Pre]
       IN \/ Respond(s, [r EXCEPT !.status = 500, !.err = "StoreUnavailable",
                                      !.material = <<>>])
          \/ IF r.material = <<>>
             THEN Respond(s, [r EXCEPT !.status = 404])
             ELSE Await(s, r)
  /\ UNCHANGED <<store, nextId, cacheVars, now, hist>>

\* The assignment and `await material.save()`.
UpdateSave(s) ==
  /\ reqs[s].op \in Verbs
  /\ reqs[s].pc = "found"
  /\ LET r == reqs[s]
         doc == Assign(r.material[1], r.body)
         mods == ModifiedPaths(r.material[1], r.body)
         saved == [r EXCEPT !.pc = "saved", !.material = <<doc>>, !.mods = mods]
     IN IF ~Valid(doc)
        THEN /\ Respond(s, [r EXCEPT !.status = 500, !.err = "ValidationError"])
             /\ UNCHANGED <<store, hist>>
        ELSE IF mods = {}
        THEN /\ Await(s, saved)
             /\ UNCHANGED <<store, hist>>
        ELSE \/ /\ Respond(s, [r EXCEPT !.status = 500, !.err = "StoreUnavailable"])
                /\ UNCHANGED <<store, hist>>
             \/ IF FindById(store, doc.id) = <<>>
                THEN /\ Respond(s, [r EXCEPT !.status = 500, !.err = "DocumentNotFoundError"])
                     /\ UNCHANGED <<store, hist>>
                ELSE /\ store' = StoreUpdate(store, doc, mods)
                     /\ hist' = NoLoad
                     /\ Await(s, saved)
  /\ UNCHANGED <<nextId, cacheVars, now>>

\* The cache update and the 200 response.
UpdateCache(s) ==
  /\ reqs[s].op \in Verbs
  /\ reqs[s].pc = "saved"
  /\ LET r == reqs[s] IN
       /\ SetCache(IF isLoaded THEN CacheUpdate(materialsCache, r.material[1])
                   ELSE materialsCache)
       /\ Respond(s, [r EXCEPT !.status = 200])
  /\ UNCHANGED <<store, nextId, now, hist>>

\* ------------------------------------------------------ DELETE /:id (single)
\* The cache removal of a single delete.
CacheRemove(c, m) ==
  LET Keep(x) == x.id # m.id
  IN [c EXCEPT !.bySpec = MapDelete(c.bySpec, m.spec),
               !.byId = MapDelete(c.byId, m.id),
               !.data = SelectSeq(c.data, Keep)]

\* DELETE /:id up to the end of the awaited findByIdAndDelete /
\* findOneAndDelete, and the 404.
DeleteFind(s, seq) ==
  /\ CanArrive(s, seq)
  /\ \E key \in Keys :
       LET r == [op |-> "delete", pc |-> "deleted", status |-> 0, err |-> "", key |-> key,
                 material |-> FindByKey(store, key), pre |-> Pre]
       IN \/ /\ Respond(s, [r EXCEPT !.status = 500, !.err = "StoreUnavailable",
                                         !.material = <<>>])
             /\ UNCHANGED <<store, hist>>
          \/ IF r.material = <<>>
             THEN /\ Respond(s, [r EXCEPT !.status = 404])
                  /\ UNCHANGED <<store, hist>>
             ELSE /\ store' = StoreRemoveIds(store, {r.material[1].id})
                  /\ hist' = NoLoad
                  /\ Await(s, r)
  /\ UNCHANGED <<nextId, cacheVars, now>>

\* The cache removal and the 200 response.
DeleteCache(s) ==
  /\ reqs[s].op = "delete"
  /\ reqs[s].pc = "deleted"
  /\ LET r == reqs[s] IN
       /\ SetCache(IF isLoaded THEN CacheRemove(materialsCache, r.material[1])
                   ELSE materialsCache)
       /\ Respond(s, [r EXCEPT !.status = 200])
  /\ UNCHANGED <<store, nextId, now, hist>>

\* --------------------------------------------------------- DELETE / (bulk)
\* A body field is absent (has = FALSE) or an array, here the set of its elements.
Absent == [has |-> FALSE, vals |-> {}]
Given(S) == [has |-> TRUE, vals |-> S]
BulkBodies ==
  {[ids |-> i, specs |-> Absent] : i \in {Absent} \cup {Given(S) : S \in SUBSET AllIds}}
    \cup {[ids |-> i, specs |-> Given(S)] : i \in {Absent, Given({})}, S \in SUBSET Specs}
    \cup {[ids |-> Given({ObjectId(1)}), specs |-> Given({"b"})]}

\* `ids && ids.length > 0`
NonEmpty(f) == f.has /\ f.vals # {}

\* `!ids && !specs`
BulkRejected(body) == ~body.ids.has /\ ~body.specs.has

\* The deleteMany query the handler builds.
BulkQuery(body) ==
  IF NonEmpty(body.ids) THEN [by |-> "ids", vals |-> body.ids.vals]
  ELSE IF NonEmpty(body.specs) THEN [by |-> "specs", vals |-> body.specs.vals]
  ELSE [by |-> "all", vals |-> {}]

\* The cache removal of a bulk delete.
CacheBulkRemove(c, body, deletedCount) ==
  IF ~(c.isLoaded /\ deletedCount > 0) THEN c
  ELSE IF NonEmpty(body.ids)
  THEN LET ids == body.ids.vals
           hit == ids \cap DOMAIN c.byId
           Keep(m) == m.id \notin ids
       IN [c EXCEPT !.bySpec = [sp \in (DOMAIN c.bySpec) \ {c.byId[id].spec : id \in hit}
                                  |-> c.bySpec[sp]],
                    !.byId = [id \in (DOMAIN c.byId) \ hit |-> c.byId[id]],
                    !.data = SelectSeq(c.data, Keep)]
  ELSE IF NonEmpty(body.specs)
  THEN LET specs == body.specs.vals
           hit == specs \cap DOMAIN c.bySpec
           Keep(m) == m.spec \notin specs
       IN [c EXCEPT !.byId = [id \in (DOMAIN c.byId) \ {c.bySpec[sp].id : sp \in hit}
                                |-> c.byId[id]],
                    !.bySpec = [sp \in (DOMAIN c.bySpec) \ hit |-> c.bySpec[sp]],
                    !.data = SelectSeq(c.data, Keep)]
  ELSE c

\* DELETE / up to the end of `await SteelMaterial.deleteMany(query)`.
BulkDeleteMany(s, seq) ==
  /\ CanArrive(s, seq)
  /\ \E body \in BulkBodies :
       LET r == [op |-> "bulk", pc |-> "deleted", status |-> 0, err |-> "", body |-> body,
                 deletedCount |-> 0, pre |-> Pre]
           gone == Matching(store, BulkQuery(body))
       IN IF BulkRejected(body)
          THEN /\ Respond(s, [r EXCEPT !.status = 400])
               /\ UNCHANGED <<store, hist>>
          ELSE \/ /\ Respond(s, [r EXCEPT !.status = 500, !.err = "StoreUnavailable"])
                  /\ UNCHANGED <<store, hist>>
               \/ /\ store' = StoreRemoveIds(store, gone)
                  /\ hist' = IF gone = {} THEN hist ELSE NoLoad
                  /\ Await(s, [r EXCEPT !.deletedCount = Cardinality(gone)])
  /\ UNCHANGED <<nextId, cacheVars, now>>

\* The cache removal and the 200 response.
BulkCache(s) ==
  /\ reqs[s].op = "bulk"
  /\ reqs[s].pc = "deleted"
  /\ LET r == reqs[s] IN
       /\ SetCache(CacheBulkRemove(materialsCache, r.body, r.deletedCount))
       /\ Respond(s, [r EXCEPT !.status = 200])
  /\ UNCHANGED <<store, nextId, now, hist>>

\* ------------------------------------------------------------ GET /:id
\* A lookup that probes the cache without looking at isLoaded.
GetResponseAnyCache(c, st, id) ==
  LET cached == IF isObjectId(id)
                THEN (IF MapHas(c.byId, id) THEN <<c.byId[id]>> ELSE <<>>)
                ELSE (IF MapHas(c.bySpec, id) THEN <<c.bySpec[id]>> ELSE <<>>)
      material == FindByKey(st, id)
  IN IF cached # <<>>
     THEN [status |-> 200, data |-> cached, fromCache |-> TRUE]
     ELSE IF material = <<>>
     THEN [status |-> 404, data |-> <<>>, fromCache |-> FALSE]
     ELSE [status |-> 200, data |-> material, fromCache |-> FALSE]

\* A lookup that probes byId whatever the shape of the key.
GetResponseByIdOnly(c, st, id) ==
  LET cached == IF ~c.isLoaded THEN <<>>
                ELSE IF MapHas(c.byId, id) THEN <<c.byId[id]>>
                ELSE <<>>
      material == FindByKey(st, id)
  IN IF cached # <<>>
     THEN [status |-> 200, data |-> cached, fromCache |-> TRUE]
     ELSE IF material = <<>>
     THEN [status |-> 404, data |-> <<>>, fromCache |-> FALSE]
     ELSE [status |-> 200, data |-> material, fromCache |-> FALSE]

\* The response of GET /:id when its store lookup, if any, succeeds.
GetResponse(c, st, id) ==
  LET cached == IF ~c.isLoaded THEN <<>>
                ELSE IF isObjectId(id)
                THEN (IF MapHas(c.byId, id) THEN <<c.byId[id]>> ELSE <<>>)
                ELSE (IF MapHas(c.bySpec, id) THEN <<c.bySpec[id]>> ELSE <<>>)
      material == FindByKey(st, id)
  IN IF cached # <<>>
     THEN [status |-> 200, data |-> cached, fromCache |-> TRUE]
     ELSE IF material = <<>>
     THEN [status |-> 404, data |-> <<>>, fromCache |-> FALSE]
     ELSE [status |-> 200, data |-> material, fromCache |-> FALSE]

\* GET /:id, whole: at most one awaited store call and no cache write.
Get(s, seq) ==
  /\ CanArrive(s, seq)
  /\ \E key \in Keys :
       LET g == GetResponse(materialsCache, store, key)
           r == [op |-> "get", pc |-> "done", status |-> g.status, err |-> "", key |-> key,
                 data |-> g.data, fromCache |-> g.fromCache, pre |-> Pre]
       IN \/ Respond(s, r)
          \/ /\ ~g.fromCache
             /\ Respond(s, [r EXCEPT !.status = 500, !.err = "StoreUnavailable",
                                      !.data = <<>>])
  /\ UNCHANGED <<store, nextId, cacheVars, now, hist>>

\* ---------------------------------------------------------- searchInCache
\* The characters of the strings of the model.
Chars(s) ==
  CASE s = "" -> <<>>
    [] s = "a" -> <<"a">>
    [] s = "b" -> <<"b">>
    [] s = "A" -> <<"A">>
    [] s = "p" -> <<"p">>
    [] OTHER -> <<s>>

Lower(ch) == IF ch = "A" THEN "a" ELSE IF ch = "B" THEN "b" ELSE IF ch = "P" THEN "p" ELSE ch

\* new RegExp(pattern, 'i').test(str) for a pattern of literal characters and
\* '.', which matches any character.
RegExpTest(pattern, str) ==
  LET P == Chars(pattern)
      S == Chars(str)
  IN \E i \in 0..(Len(S) - Len(P)) :
       \A k \in 1..Len(P) : P[k] = "." \/ Lower(S[i + k]) = Lower(P[k])

\* The strings of the model in the order of JavaScript's `<`.
StrOrder == <<"", "A", "a", "b", "i1", "i2", "i3", "i4", "p">>
StrIndex(s) == CHOOSE i \in DOMAIN StrOrder : StrOrder[i] = s
StringFields == {"id", "spec", "product"}

\* aVal < bVal on the values of field `sort`.
LessVal(a, b, sort) ==
  IF sort \notin DOMAIN a THEN FALSE
  ELSE IF sort \in StringFields THEN StrIndex(a[sort]) < StrIndex(b[sort])
  ELSE a[sort] < b[sort]

\* The comparator handed to results.sort.
Compare(a, b, sort, order) ==
  LET sortOrder == IF order = "desc" THEN -1 ELSE 1
  IN IF LessVal(a, b, sort) THEN -1 * sortOrder
     ELSE IF LessVal(b, a, sort) THEN 1 * sortOrder
     ELSE 0

\* A sort that puts elements with equal keys in reverse order.
SortTiesReversed(results, sort, order) ==
  LET n == Len(results)
      pos(i) == 1 + Cardinality({j \in 1..n :
                     \/ Compare(results[j], results[i], sort, order) < 0
                     \/ Compare(results[j], results[i], sort, order) = 0 /\ j > i})
  IN [k \in 1..n |-> results[CHOOSE i \in 1..n : pos(i) = k]]

\* Array.prototype.sort, which is stable: equal elements keep their order.
Sort(results, sort, order) ==
  LET n == Len(results)
      pos(i) == 1 + Cardinality({j \in 1..n :
                     \/ Compare(results[j], results[i], sort, order) < 0
                     \/ Compare(results[j], results[i], sort, order) = 0 /\ j < i})
  IN [k \in 1..n |-> results[CHOOSE i \in 1..n : pos(i) = k]]

\* A slice that takes the element at `to` as well.
SliceInclusive(results, from, to) ==
  LET lo == IF from < 0 THEN 0 ELSE from
      hi == IF to + 1 > Len(results) THEN Len(results) ELSE to + 1
  IN IF hi <= lo THEN <<>> ELSE [k \in 1..(hi - lo) |-> results[lo + k]]

\* results.slice(from, to) with 0-based bounds.
Slice(results, from, to) ==
  LET lo == IF from < 0 THEN 0 ELSE from
      hi == IF to > Len(results) THEN Len(results) ELSE to
  IN IF hi <= lo THEN <<>> ELSE [k \in 1..(hi - lo) |-> results[lo + k]]

NoPagination == 999999

\* Math.ceil(total / limit) for limit > 0.
CeilDiv(total, limit) == (total + limit - 1) \div limit

\* searchInCache(query, page, limit, sort, order) on cache c; a filter the
\* request leaves out is no key of query.
searchInCache(c, query, page, limit, sort, order) ==
  LET BySpec(m) == RegExpTest(query.spec, m.spec)
      ByProduct(m) == RegExpTest(query.product, m.product)
      ByMethod(m) == m.method_calc = query.method_calc
      ByCat(m) == m.cat_product = query.cat_product
      r1 == IF "spec" \in DOMAIN query /\ query.spec # ""
            THEN SelectSeq(c.data, BySpec) ELSE c.data
      r2 == IF "product" \in DOMAIN query /\ query.product # ""
            THEN SelectSeq(r1, ByProduct) ELSE r1
      r3 == IF "method_calc" \in DOMAIN query THEN SelectSeq(r2, ByMethod) ELSE r2
      r4 == IF "cat_product" \in DOMAIN query THEN SelectSeq(r3, ByCat) ELSE r3
      results == Sort(r4, sort, order)
      total == Len(results)
      skip == (page - 1) * limit
  IN IF limit >= NoPagination
     THEN [data |-> results, total |-> total, page |-> 1, limit |-> total, pages |-> 1]
     ELSE [data |-> Slice(results, skip, skip + limit), total |-> total, page |-> page,
           limit |-> limit, pages |-> IF limit = 0 THEN NaN ELSE CeilDiv(total, limit)]

\* GET / with no filter and no limit, served from the cache.
QueryAll(c) == searchInCache(c, EmptyMap, 1, NoPagination, "spec", "asc").data

\* ------------------------------------------------------------------- GET /
\* The query strings of the model: a filter the request leaves out is no key
\* of query; limit is Undefined in a request without limit, and 0 in a
\* request with limit=0.
QueryFilters ==
  {EmptyMap, [spec |-> "A"], [spec |-> "."], [product |-> "p", cat_product |-> 0]}
Pages == {1, 2, 3}
Limits == {Undefined, 0, 1, 2}
SortKeys == {"spec", "wpm"}
Orders == {"asc", "desc"}

\* The documents find(query) matches, in natural order.
StoreFilter(st, query) ==
  LET BySpec(m) == RegExpTest(query.spec, m.spec)
      ByProduct(m) == RegExpTest(query.product, m.product)
      ByMethod(m) == m.method_calc = query.method_calc
      ByCat(m) == m.cat_product = query.cat_product
      r1 == IF "spec" \in DOMAIN query /\ query.spec # "" THEN SelectSeq(st, BySpec) ELSE st
      r2 == IF "product" \in DOMAIN query /\ query.product # ""
            THEN SelectSeq(r1, ByProduct) ELSE r1
      r3 == IF "method_calc" \in DOMAIN query THEN SelectSeq(r2, ByMethod) ELSE r2
  IN IF "cat_product" \in DOMAIN query THEN SelectSeq(r3, ByCat) ELSE r3

\* The orders .sort({ [sort]: sortOrder }) may return the documents in: the
\* store sorts before it skips and limits, and the order of documents with
\* equal keys is not specified.
StoreSorted(docs, sort, order) ==
  LET n == Len(docs)
      perms == {p \in [1..n -> 1..n] : \A i, j \in 1..n : p[i] = p[j] => i = j}
      sorted == {p \in perms : \A i, j \in 1..n :
                   i < j => Compare(docs[p[i]], docs[p[j]], sort, order) <= 0}
  IN {[k \in 1..n |-> docs[p[k]]] : p \in sorted}

\* The successful responses of GET / while the cache is not loaded. Without a
\* limit, skip and limit are NaN: the store then applies neither, unless it
\* rejects them (the 500 of Query). With limit=0 the store applies no limit.
StoreResponses(st, query, page, limit, sort, order) ==
  LET docs == StoreFilter(st, query)
      total == Len(docs)
      skip == (page - 1) * limit
  IN {[status |-> 200, err |-> "", fromCache |-> FALSE,
       data |-> IF limit \in {Undefined, 0} THEN all ELSE Slice(all, skip, skip + limit),
       total |-> total, page |-> page,
       limit |-> IF limit = Undefined THEN NaN ELSE limit,
       pages |-> IF limit \in {Undefined, 0} THEN NaN ELSE CeilDiv(total, limit)]
      : all \in StoreSorted(docs, sort, order)}

\* The response of GET / while the cache is loaded.
CacheResponse(c, query, page, limit, sort, order) ==
  LET limitValue == IF limit # Undefined THEN limit ELSE NoPagination
      result == searchInCache(c, query, page, limitValue, sort, order)
  IN [status |-> 200, err |-> "", fromCache |-> TRUE, data |-> result.data,
      total |-> result.total, page |-> result.page, limit |-> result.limit,
      pages |-> result.pages]

\* A GET / that sorts materialsCache.data itself instead of a copy.
QuerySortsInPlace(s, seq) ==
  /\ CanArrive(s, seq)
  /\ \E query \in QueryFilters, page \in Pages, limit \in Limits,
        sort \in SortKeys, order \in Orders :
       LET failed == [status |-> 500, err |-> "StoreUnavailable", fromCache |-> FALSE,
                      data |-> <<>>, total |-> 0, page |-> page, limit |-> limit, pages |-> 0]
           R(resp) == [op |-> "query", pc |-> "done", status |-> resp.status, err |-> resp.err,
                       query |-> query, page |-> page, limit |-> limit, sort |-> sort,
                       order |-> order, resp |-> resp, pre |-> Pre]
       IN IF isLoaded
          THEN /\ Respond(s, R(CacheResponse(materialsCache, query, page, limit, sort, order)))
               /\ data' = Sort(data, sort, order)
          ELSE /\ \/ Respond(s, R(failed))
                  \/ \E resp \in StoreResponses(store, query, page, limit, sort, order) :
                       Respond(s, R(resp))
               /\ data' = data
  /\ UNCHANGED <<store, nextId, bySpec, byId, lastSync, isLoaded, now, hist>>

\* GET /, whole: served by searchInCache when the cache is loaded, else by
\* the awaited find and countDocuments; no cache write.
Query(s, seq) ==
  /\ CanArrive(s, seq)
  /\ \E query \in QueryFilters, page \in Pages, limit \in Limits,
        sort \in SortKeys, order \in Orders :
       LET failed == [status |-> 500, err |-> "StoreUnavailable", fromCache |-> FALSE,
                      data |-> <<>>, total |-> 0, page |-> page, limit |-> limit, pages |-> 0]
           R(resp) == [op |-> "query", pc |-> "done", status |-> resp.status, err |-> resp.err,
                       query |-> query, page |-> page, limit |-> limit, sort |-> sort,
                       order |-> order, resp |-> resp, pre |-> Pre]
       IN IF isLoaded
          THEN Respond(s, R(CacheResponse(materialsCache, query, page, limit, sort, order)))
          ELSE \/ Respond(s, R(failed))
               \/ \E resp \in StoreResponses(store, query, page, limit, sort, order) :
                    Respond(s, R(resp))
  /\ UNCHANGED <<store, nextId, cacheVars, now, hist>>

\* ------------------------------------------------------- GET /cache/status
Status(s, seq) ==
  /\ CanArrive(s, seq)
  /\ Respond(s, [op |-> "status", pc |-> "done", status |-> 200, err |-> "",
                 isLoaded |-> isLoaded, count |-> Len(data), lastSync |-> lastSync,
                 pre |-> Pre])
  /\ UNCHANGED <<store, nextId, cacheVars, now, hist>>

\* ------------------------------------------------------------------ next
\* The client has read the response of slot s: the slot is free again.
Return(s) ==
  /\ reqs[s].pc = "done"
  /\ reqs[s] # NoRequest
  /\ reqs' = [reqs EXCEPT ![s] = NoRequest]
  /\ UNCHANGED <<store, nextId, cacheVars, now, hist>>

\* The handlers, one request at a time.
Next ==
  \/ SyncFind(1, TRUE)
  \/ SyncApply(1)
  \/ CreateFindOne(1, TRUE)
  \/ CreateSave(1)
  \/ CreateCache(1)
  \/ UpdateFind(1, TRUE)
  \/ UpdateSave(1)
  \/ UpdateCache(1)
  \/ DeleteFind(1, TRUE)
  \/ DeleteCache(1)
  \/ BulkDeleteMany(1, TRUE)
  \/ BulkCache(1)
  \/ Get(1, TRUE)
  \/ Return(1)

Spec == Init /\ [][Next]_vars

\* Two requests at a time, interleaving at their awaited store calls: creates,
\* with loads of the cache.
NextCreates ==
  \E s \in Slots :
    \/ SyncFind(s, FALSE)
    \/ SyncApply(s)
    \/ CreateFindOne(s, FALSE)
    \/ CreateSave(s)
    \/ CreateCache(s)
    \/ Return(s)

SpecCreates == Init /\ [][NextCreates]_vars

\* Two requests at a time, interleaving at their awaited store calls: a
\* writer (create, PATCH of spec, delete) on slot 1, and a load of the cache
\* or a reader (GET /:id) on slot 2.
NextRace ==
  \/ (CreateFindOne(1, FALSE) /\ reqs'[1].body.wpm = 1)
  \/ CreateSave(1)
  \/ CreateCache(1)
  \/ (UpdateFind(1, FALSE) /\ reqs'[1].op = "patch" /\ reqs'[1].body = [spec |-> "b"])
  \/ UpdateSave(1)
  \/ UpdateCache(1)
  \/ DeleteFind(1, FALSE)
  \/ DeleteCache(1)
  \/ SyncFind(2, FALSE)
  \/ SyncApply(2)
  \/ Get(2, FALSE)
  \/ Return(1)
  \/ Return(2)

SpecRace == Init /\ [][NextRace]_vars

\* The readers (GET /, GET /:id, GET /cache/status) between loads, creates
\* and deletes, one request at a time.
NextReads ==
  \/ SyncFind(1, TRUE)
  \/ SyncApply(1)
  \/ CreateFindOne(1, TRUE)
  \/ CreateSave(1)
  \/ CreateCache(1)
  \/ DeleteFind(1, TRUE)
  \/ DeleteCache(1)
  \/ Get(1, TRUE)
  \/ Query(1, TRUE)
  \/ Status(1, TRUE)
  \/ Return(1)

SpecReads == Init /\ [][NextReads]_vars

\* GET / on a loaded cache of up to MaxPageLen records that mirrors the store.
MaxPageLen == 3
MaxPageSize == 3
PageSpecs == {"a", "b", "A"}

PageData ==
  LET rec(k, sp, w) == NewMaterial([spec |-> sp, wpm |-> w, product |-> "p"], ObjectId(k))
  IN UNION {
       {d \in [1..n -> {rec(k, sp, w) : k \in 1..n, sp \in PageSpecs, w \in WpmVals}] :
          /\ \A k \in 1..n : d[k].id = ObjectId(k)
          /\ \A j, k \in 1..n : d[j].spec = d[k].spec => j = k}
       : n \in 0..MaxPageLen}

InitPages ==
  /\ data \in PageData
  /\ store = data
  /\ nextId = Len(data)
  /\ bySpec = BuildBySpec(data)
  /\ byId = BuildById(data)
  /\ lastSync = 1
  /\ isLoaded = TRUE
  /\ now = 2
  /\ reqs = [s \in Slots |-> NoRequest]
  /\ hist = [clean |-> TRUE, data |-> data, bySpec |-> bySpec, byId |-> byId]

NextPages ==
  \/ Query(1, TRUE)
  \/ Return(1)

SpecPages == InitPages /\ [][NextPages]_vars

\* Every handler, one request at a time: those of Next, GET / without
\* pagination and GET /cache/status.
NextAll ==
  \/ Next
  \/ (Query(1, TRUE) /\ reqs'[1].limit = Undefined /\ reqs'[1].page = 1 /\ reqs'[1].sort = "spec")
  \/ Status(1, TRUE)

SpecAll == Init /\ [][NextAll]_vars

\* ---------------------------------------------------------------- claims
\* The response of the request that completed last, one request at a time.
last == reqs[1]
Completed(op) == last.op = op /\ last.pc = "done" /\ last # NoRequest
Quiescent == \A s \in Slots : reqs[s].pc = "done"

IdsOf(seq) == {seq[i].id : i \in DOMAIN seq}
SpecsOf(seq) == {seq[i].spec : i \in DOMAIN seq}
NoDuplicateSpec(seq) == \A i, j \in DOMAIN seq : seq[i].spec = seq[j].spec => i = j
CacheUnchangedSince(pre) ==
  /\ data = pre.data
  /\ bySpec = pre.bySpec
  /\ byId = pre.byId
  /\ isLoaded = pre.isLoaded
  /\ lastSync = pre.lastSync

\* C1 (index coherence, I1/P1): whenever no request is in flight and the
\* cache is loaded, data, the values of bySpec and the values of byId are the
\* same set of records, and bySpec has exactly one key per record of data.
C1_IndexCoherence ==
  (Quiescent /\ isLoaded) =>
    /\ MapValues(bySpec) = Range(data)
    /\ MapValues(byId) = Range(data)
    /\ Cardinality(DOMAIN bySpec) = Len(data)
    /\ \A sp \in DOMAIN bySpec : bySpec[sp].spec = sp
    /\ \A id \in DOMAIN byId : byId[id].id = id

\* C2 (uniqueness on create, P2): a create whose spec is a key of bySpec when
\* the cache is loaded, or the spec of a stored record when it is not, is
\* answered 409 unless the store lookup itself fails, inserts nothing and
\* leaves the store and the cache as they were.
SpecExists(pre, spec) ==
  IF pre.isLoaded THEN MapHas(pre.bySpec, spec) ELSE spec \in SpecsOf(pre.store)

C2_DuplicateCreateRejected ==
  (Completed("create") /\ last.body.spec # "" /\ SpecExists(last.pre, last.body.spec)) =>
    /\ last.status = 409 \/ last.err = "StoreUnavailable"
    /\ store = last.pre.store
    /\ CacheUnchangedSince(last.pre)

\* C3 (spec uniqueness as a state invariant): with one request at a time, from
\* the empty store, no two stored records and no two records of data ever
\* have the same spec.
C3_SpecUnique ==
  Quiescent => NoDuplicateSpec(store) /\ NoDuplicateSpec(data)

\* C4 (concurrent duplicate create): of two creates carrying the same spec
\* that interleave at their store calls, at most one is answered 201, and once
\* both are answered the store and data hold at most one record with that spec.
C4_ConcurrentCreateOnce ==
  \A s, t \in Slots :
    (/\ s # t
     /\ reqs[s].op = "create" /\ reqs[s].pc = "done"
     /\ reqs[t].op = "create" /\ reqs[t].pc = "done"
     /\ reqs[s].body.spec = reqs[t].body.spec) =>
      /\ ~(reqs[s].status = 201 /\ reqs[t].status = 201)
      /\ Cardinality({i \in DOMAIN store : store[i].spec = reqs[s].body.spec}) <= 1
      /\ Cardinality({i \in DOMAIN data : data[i].spec = reqs[s].body.spec}) <= 1

\* C5 (write-then-read, P3): while loaded, right after a successful create or
\* update GET /:id by id and by spec returns the written record and the
\* unfiltered query contains it; right after a successful delete or bulk
\* delete GET /:id of every deleted record is 404 and no query contains it.
Written(m) ==
  /\ GetResponse(materialsCache, store, m.id).data = <<m>>
  /\ GetResponse(materialsCache, store, m.spec).data = <<m>>
  /\ m \in Range(QueryAll(materialsCache))

Gone(id) ==
  /\ GetResponse(materialsCache, store, id).status = 404
  /\ id \notin IdsOf(QueryAll(materialsCache))

C5_WriteThenRead ==
  (last.pc = "done" /\ last # NoRequest /\ isLoaded /\ last.op # "get"
     /\ last.op # "sync" /\ last.pre.isLoaded) =>
    /\ (last.op = "create" /\ last.status = 201) => Written(last.material[1])
    /\ (last.op \in Verbs /\ last.status = 200) => Written(last.material[1])
    /\ (last.op = "delete" /\ last.status = 200) => Gone(last.material[1].id)
    /\ (last.op = "bulk" /\ last.status = 200) =>
         \A id \in IdsOf(last.pre.store) \ IdsOf(store) : Gone(id)

\* C6 (the cache mirrors the store): with one request at a time and no other
\* writer, whenever the cache is loaded and no request is in flight the records
\* of data are the records of the store.
C6_CacheMirrorsStore ==
  (Quiescent /\ isLoaded) => Range(data) = Range(store)

C8_FailedLoadKeepsCache ==
  (Completed("sync") /\ ~last.ok) =>
    /\ data = last.pre.data
    /\ bySpec = last.pre.bySpec
    /\ byId = last.pre.byId
    /\ lastSync = last.pre.lastSync
    /\ last.ret = FALSE
    /\ last.status = 500

C8_Witness ==
  /\ Completed("sync")
  /\ ~last.ok
  /\ last.pre.isLoaded
  /\ last.pre.lastSync # 0
  /\ Len(last.pre.data) = 2

\* C9 (successful load): afterwards data is the scanned sequence, byId has
\* exactly one entry per scanned record under its id, every entry of bySpec is
\* a scanned record under its spec, isLoaded is true and lastSync is the time
\* of this load.
C9_LoadReplacesCache ==
  (Completed("sync") /\ last.ok) =>
    /\ last.materials = last.pre.store
    /\ data = last.materials
    /\ DOMAIN byId = IdsOf(last.materials)
    /\ \A id \in DOMAIN byId : byId[id] \in Range(last.materials) /\ byId[id].id = id
    /\ \A sp \in DOMAIN bySpec : bySpec[sp] \in Range(last.materials) /\ bySpec[sp].spec = sp
    /\ isLoaded
    /\ lastSync = last.time
    /\ last.time > last.pre.lastSync
    /\ last.ret = TRUE

C9_Witness ==
  /\ Completed("sync")
  /\ last.ok
  /\ last.materials # <<>>
  /\ \E sp \in DOMAIN last.pre.bySpec : sp \notin SpecsOf(last.materials)
  /\ \E id \in DOMAIN last.pre.byId : id \notin IdsOf(last.materials)

\* C10 (load idempotence, P4): a successful load that follows a successful
\* load with no store write between them builds the same data, bySpec and byId.
C10_ReloadIdempotent ==
  (Completed("sync") /\ last.ok /\ last.pre.hist.clean) =>
    /\ data = last.pre.hist.data
    /\ Len(data) = Len(last.pre.hist.data)
    /\ bySpec = last.pre.hist.bySpec
    /\ byId = last.pre.hist.byId

C10_Witness ==
  /\ Completed("sync")
  /\ last.ok
  /\ last.pre.hist.clean
  /\ Len(data) = 2
  /\ lastSync # last.pre.lastSync

\* C11 (store first, all or nothing, I3): a create, update, delete or bulk
\* delete that is answered with an error (the store lookup or write failed,
\* or nothing matched: 400, 404, 409, 500) leaves data, bySpec, byId,
\* isLoaded and lastSync as they were; when one has changed the cache it was
\* answered 2xx and its store write is in the store.
Writes == {"create", "put", "patch", "delete", "bulk"}
Success == {200, 201}
StoreWriteDone ==
  CASE last.op = "create" -> last.material # <<>> /\ last.material[1] \in Range(store)
    [] last.op \in Verbs -> last.material # <<>> /\ last.material[1] \in Range(store)
    [] last.op = "delete" -> last.material # <<>> /\ last.material[1].id \notin IdsOf(store)
    [] last.op = "bulk" -> Matching(store, BulkQuery(last.body)) = {}
    [] OTHER -> FALSE

C11_StoreFirst ==
  \A op \in Writes :
    Completed(op) =>
      /\ last.status \notin Success => CacheUnchangedSince(last.pre)
      /\ ~CacheUnchangedSince(last.pre) => last.status \in Success /\ StoreWriteDone

C11_Witness ==
  /\ Completed("create")
  /\ last.status = 500
  /\ last.err = "StoreUnavailable"
  /\ last.pre.isLoaded
  /\ last.pre.data # <<>>
  /\ data = last.pre.data

\* C12 (bulk-delete validation): a bulk delete whose body does not supply
\* exactly one of ids / specs, or supplies it empty, is answered 400 and
\* leaves the store and the cache as they were.
ExactlyOneNonEmpty(body) ==
  \/ NonEmpty(body.ids) /\ ~body.specs.has
  \/ NonEmpty(body.specs) /\ ~body.ids.has

C12_BulkValidation ==
  (Completed("bulk") /\ ~ExactlyOneNonEmpty(last.body)) =>
    /\ last.status = 400
    /\ store = last.pre.store
    /\ CacheUnchangedSince(last.pre)

\* C13 (bulk-delete effect): after a bulk delete of a non-empty set of ids, or
\* of specs, answered 200 while the cache is loaded, no record matching the
\* set is left in data, bySpec or byId, every other record is where it was in
\* all three, and deletedCount is the number of records the store removed.
BulkMatch(body, m) ==
  IF NonEmpty(body.ids) THEN m.id \in body.ids.vals ELSE m.spec \in body.specs.vals

C13_BulkEffect ==
  (Completed("bulk") /\ last.status = 200 /\ last.pre.isLoaded
     /\ ExactlyOneNonEmpty(last.body)) =>
    LET pre == last.pre
        body == last.body
    IN /\ \A m \in Range(data) \cup MapValues(bySpec) \cup MapValues(byId) :
            ~BulkMatch(body, m)
       /\ \A m \in Range(pre.data) : ~BulkMatch(body, m) => m \in Range(data)
       /\ \A sp \in DOMAIN pre.bySpec :
            ~BulkMatch(body, pre.bySpec[sp]) =>
              MapHas(bySpec, sp) /\ bySpec[sp] = pre.bySpec[sp]
       /\ \A id \in DOMAIN pre.byId :
            ~BulkMatch(body, pre.byId[id]) =>
              MapHas(byId, id) /\ byId[id] = pre.byId[id]
       /\ last.deletedCount = Len(pre.store) - Len(store)
       /\ last.deletedCount =
            Cardinality({i \in DOMAIN pre.store : BulkMatch(body, pre.store[i])})

\* C14 (atomic mutation sequences): with requests interleaving at their
\* awaited store calls, once every request has completed and the cache is
\* loaded, the cache holds the records of the store, and a create answered
\* 201 while the cache was loaded is in data, bySpec and byId: a load whose
\* scan was taken before the insert does not overwrite it.
C14_AtomicMutations ==
  (Quiescent /\ isLoaded) =>
    /\ Range(data) = Range(store)
    /\ MapValues(byId) = Range(store)
    /\ \A s \in Slots :
         (reqs[s].op = "create" /\ reqs[s].status = 201) =>
           /\ reqs[s].material[1] \in Range(data)
           /\ MapHas(byId, reqs[s].material[1].id)
           /\ MapHas(bySpec, reqs[s].material[1].spec)

\* C15 (no torn cache state): in every interleaving, a step that changes
\* data, bySpec or byId is the whole cache block of one request, which
\* completes in that step, and after it the record that request wrote is in
\* all three structures (or, for a delete, in none): no handler can run
\* between the update of one structure and the update of the others.
BlockComplete(r, d, sp, id) ==
  CASE r.op = "sync" ->
         /\ d = r.materials
         /\ \A i \in DOMAIN r.materials :
              LET m == r.materials[i]
              IN /\ MapHas(id, m.id) /\ id[m.id] = m
                 /\ MapHas(sp, m.spec) /\ sp[m.spec] \in Range(r.materials)
         /\ \A k \in DOMAIN id : id[k] \in Range(r.materials)
         /\ \A k \in DOMAIN sp : sp[k] \in Range(r.materials)
    [] r.op \in {"create"} \cup Verbs ->
         LET m == r.material[1]
         IN /\ m \in Range(d)
            /\ MapHas(id, m.id) /\ id[m.id] = m
            /\ MapHas(sp, m.spec) /\ sp[m.spec] = m
    [] r.op = "delete" ->
         LET m == r.material[1]
         IN /\ m.id \notin IdsOf(d)
            /\ ~MapHas(id, m.id)
            /\ ~MapHas(sp, m.spec)
    [] OTHER -> FALSE

C15_CacheStep ==
  (<<data, bySpec, byId>>' # <<data, bySpec, byId>>) =>
    \E s \in Slots :
      /\ reqs[s].pc # "done"
      /\ reqs'[s].pc = "done"
      /\ \A t \in Slots \ {s} : reqs'[t] = reqs[t]
      /\ BlockComplete(reqs'[s], data', bySpec', byId')

C15_NoTornCache == [][C15_CacheStep]_vars

C15_Witness ==
  /\ reqs[1].op = "patch"
  /\ reqs[1].pc = "done"
  /\ reqs[1].status = 200
  /\ data # reqs[1].pre.data
  /\ bySpec # reqs[1].pre.bySpec
  /\ reqs[2].op = "sync"
  /\ reqs[2].pc = "found"
  /\ reqs[2].pre.data = reqs[1].pre.data

\* C16 (degraded fallback, P6): while isLoaded is false, also after a failed
\* load that left older records in data, GET /:id and GET / answer from the
\* store alone: the response is what the store returns for the same key, or
\* filter, sort, page and limit, it has fromCache = false, and a store error
\* is answered 500, not as an empty result.
C16_DegradedFallback ==
  /\ (Completed("get") /\ ~last.pre.isLoaded) =>
       /\ ~last.fromCache
       /\ \/ last.status = 500 /\ last.err # ""
          \/ LET material == FindByKey(last.pre.store, last.key)
             IN /\ last.err = ""
                /\ last.data = material
                /\ last.status = IF material = <<>> THEN 404 ELSE 200
  /\ (Completed("query") /\ ~last.pre.isLoaded) =>
       /\ ~last.resp.fromCache
       /\ \/ last.status = 500 /\ last.err # ""
          \/ last.resp \in StoreResponses(last.pre.store, last.query, last.page,
                                          last.limit, last.sort, last.order)

C16_Witness ==
  /\ Completed("get")
  /\ ~last.pre.isLoaded
  /\ last.pre.data # <<>>
  /\ MapHas(last.pre.bySpec, last.key)
  /\ last.status = 404

\* C17 (point lookup dispatch): GET /:id with the cache loaded probes byId
\* for a key of ObjectId shape and bySpec for any other key; a hit is
\* answered with that record and fromCache = true without a store call; on a
\* miss, or when the cache is not loaded, the store is asked by id or by spec
\* under the same rule and its record is answered with fromCache = false; the
\* answer is 404 exactly when neither the probed index nor the store has a
\* matching record.
C17_GetDispatch ==
  Completed("get") =>
    LET pre == last.pre
        key == last.key
        probed == IF isObjectId(key) THEN pre.byId ELSE pre.bySpec
        hit == pre.isLoaded /\ MapHas(probed, key)
        stored == IF isObjectId(key) THEN FindById(pre.store, key)
                  ELSE FindOneBySpec(pre.store, key)
    IN /\ hit => /\ last.status = 200
                 /\ last.err = ""
                 /\ last.fromCache
                 /\ last.data = <<probed[key]>>
       /\ (~hit /\ last.err = "") =>
            /\ ~last.fromCache
            /\ last.data = stored
            /\ last.status = IF stored = <<>> THEN 404 ELSE 200
       /\ last.status = 404 <=> (~hit /\ stored = <<>> /\ last.err = "")

C17_Witness ==
  /\ Completed("get")
  /\ last.key \in Specs
  /\ last.fromCache
  /\ last.data # <<>>
  /\ last.data[1].spec = last.key

\* C18 (pagination, P5): on a loaded cache, for the filter and sort of any
\* GET / and every page size S from 1 up, the pages 1..ceil(N/S) of
\* searchInCache put one after the other are the whole filtered and sorted
\* sequence of N records, each record once; every page reports total N and
\* pages ceil(N/S), a page past the last is empty, and GET / answers the page
\* searchInCache returns.
C18_Pagination ==
  isLoaded =>
    /\ Completed("query") => \A S \in 1..MaxPageSize :
         LET c == materialsCache
             query == last.query
             sort == last.sort
             order == last.order
             full == searchInCache(c, query, 1, NoPagination, sort, order).data
             N == Len(full)
             P == CeilDiv(N, S)
             pg(k) == searchInCache(c, query, k, S, sort, order)
         IN /\ full \in StoreSorted(StoreFilter(data, query), sort, order)
            /\ \A k \in 1..P :
                 Len(pg(k).data) = IF k < P THEN S ELSE N - (P - 1) * S
            /\ \A i \in 1..N :
                 pg(((i - 1) \div S) + 1).data[((i - 1) % S) + 1] = full[i]
            /\ \A k \in 1..(P + 1) : pg(k).total = N /\ pg(k).pages = P
            /\ pg(P + 1).data = <<>>
    /\ (Completed("query") /\ last.limit >= 1) =>
         LET pg == searchInCache(materialsCache, last.query, last.page, last.limit,
                                 last.sort, last.order)
         IN /\ last.resp.data = pg.data
            /\ last.resp.total = pg.total
            /\ last.resp.pages = pg.pages
            /\ last.resp.fromCache

C18_Witness ==
  /\ Completed("query")
  /\ Len(data) = 3
  /\ last.limit = 1
  /\ last.page = 3
  /\ last.sort = "spec"
  /\ last.order = "desc"
  /\ last.resp.total = 3
  /\ last.resp.pages = 3
  /\ Len(last.resp.data) = 1

\* C19 (reads are pure): GET /, GET /:id and GET /cache/status leave data,
\* the order of its elements included, bySpec, byId, isLoaded and lastSync, and
\* the store, as they were, whatever the filter, sort, order, page and limit.
Reads == {"query", "get", "status"}

C19_ReadsPure ==
  \A op \in Reads :
    Completed(op) =>
      /\ CacheUnchangedSince(last.pre)
      /\ store = last.pre.store

C19_Witness ==
  /\ Completed("query")
  /\ last.pre.isLoaded
  /\ last.sort = "spec"
  /\ last.order = "desc"
  /\ Len(last.resp.data) = 2
  /\ last.resp.data # data
  /\ data = last.pre.data

\* C20 (only a load changes the lifecycle fields): until a load has
\* succeeded isLoaded is false and the cache is empty; isLoaded turns true
\* only in a load that succeeded; create, update, delete, bulk delete, GET /,
\* GET /:id and GET /cache/status leave isLoaded and lastSync as they were,
\* and while isLoaded is false the four writes leave data, bySpec and byId
\* as they were too.
C20_OnlyLoadChangesLifecycle ==
  /\ lastSync = 0 => ~isLoaded /\ data = <<>> /\ bySpec = EmptyMap /\ byId = EmptyMap
  /\ (Completed("sync") /\ isLoaded /\ ~last.pre.isLoaded) => last.ok /\ last.status = 200
  /\ \A op \in Writes \cup Reads :
       Completed(op) =>
         /\ isLoaded = last.pre.isLoaded
         /\ lastSync = last.pre.lastSync
         /\ ~last.pre.isLoaded =>
              data = last.pre.data /\ bySpec = last.pre.bySpec /\ byId = last.pre.byId

C20_Witness ==
  /\ Completed("create")
  /\ last.status = 201
  /\ ~last.pre.isLoaded
  /\ last.pre.data # <<>>
  /\ store # last.pre.store
  /\ data = last.pre.data

\* C21 (update postcondition): after a PUT or PATCH answered 200 while the
\* cache is loaded, the updated record is in data exactly once, at the index
\* it had, or appended when it was not in data; byId maps its id and bySpec
\* its new spec to it; when the spec changed bySpec has no entry under the
\* old spec; and the entries of every other record are as they were.
C21_UpdateEffect ==
  \A verb \in Verbs :
    (Completed(verb) /\ last.status = 200 /\ last.pre.isLoaded) =>
      LET pre == last.pre
          m == last.material[1]
          old == FindByKey(pre.store, last.key)[1]
          index == findIndex(pre.data, m.id)
      IN /\ Cardinality({i \in DOMAIN data : data[i].id = m.id}) = 1
         /\ index # 0 => Len(data) = Len(pre.data) /\ data[index] = m
         /\ index = 0 => data = Append(pre.data, m)
         /\ MapHas(byId, m.id) /\ byId[m.id] = m
         /\ MapHas(bySpec, m.spec) /\ bySpec[m.spec] = m
         /\ old.spec # m.spec => ~MapHas(bySpec, old.spec)
         /\ \A i \in DOMAIN pre.data : i # index => data[i] = pre.data[i]
         /\ \A id \in (DOMAIN pre.byId) \ {m.id} : MapHas(byId, id) /\ byId[id] = pre.byId[id]
         /\ \A sp \in DOMAIN pre.bySpec :
              pre.bySpec[sp].id # m.id => MapHas(bySpec, sp) /\ bySpec[sp] = pre.bySpec[sp]

\* C22 (stable sort): the result of a query served by searchInCache is in
\* the order of the sort field, ascending unless order is 'desc', and two
\* records with equal values of the sort field are in the result in the order
\* they have in data, in both directions.
InOrder(res, sort, order) ==
  \A i, j \in DOMAIN res :
    i < j =>
      /\ IF order = "desc" THEN ~LessVal(res[i], res[j], sort)
         ELSE ~LessVal(res[j], res[i], sort)
      /\ (~LessVal(res[i], res[j], sort) /\ ~LessVal(res[j], res[i], sort)) =>
           findIndex(data, res[i].id) < findIndex(data, res[j].id)

C22_StableSort ==
  isLoaded =>
    /\ \A query \in QueryFilters, sort \in SortKeys, order \in Orders :
         InOrder(searchInCache(materialsCache, query, 1, NoPagination, sort, order).data,
                 sort, order)
    /\ Completed("query") => InOrder(last.resp.data, last.sort, last.order)

C22_Witness ==
  /\ Completed("query")
  /\ last.sort = "wpm"
  /\ last.order = "desc"
  /\ last.limit = Undefined
  /\ Len(last.resp.data) = 3
  /\ last.resp.data # data
  /\ \E i, j \in DOMAIN last.resp.data : i < j /\ last.resp.data[i].wpm = last.resp.data[j].wpm

\* C23 (filter semantics): a record of data is in the unpaginated result of a
\* query served by searchInCache iff, for every filter the request gives, the
\* filter string occurs in the record's spec, or product, as a substring
\* without regard to case, and method_calc, or cat_product, equals the filter
\* integer; also for filter strings holding characters such as '.'.
SubstringNoCase(needle, str) ==
  LET P == Chars(needle)
      S == Chars(str)
  IN \E i \in 0..(Len(S) - Len(P)) :
       \A k \in 1..Len(P) : Lower(S[i + k]) = Lower(P[k])

FilterMatches(query, m) ==
  /\ "spec" \in DOMAIN query => SubstringNoCase(query.spec, m.spec)
  /\ "product" \in DOMAIN query => SubstringNoCase(query.product, m.product)
  /\ "method_calc" \in DOMAIN query => m.method_calc = query.method_calc
  /\ "cat_product" \in DOMAIN query => m.cat_product = query.cat_product

C23_FilterSemantics ==
  (Completed("query") /\ last.pre.isLoaded /\ last.status = 200 /\ last.limit = Undefined) =>
    \A m \in Range(data) : m \in Range(last.resp.data) <=> FilterMatches(last.query, m)

\* C25 (no pagination): a GET / without limit, or with limit 0, on a loaded
\* cache is answered with the whole filtered and sorted result as one page:
\* data has all N records, page is 1 and pages is 1, whatever page was asked.
C25_NoPagination ==
  (Completed("query") /\ last.pre.isLoaded /\ last.limit \in {Undefined, 0}) =>
    LET full == Sort(StoreFilter(last.pre.data, last.query), last.sort, last.order)
    IN /\ last.status = 200
       /\ last.resp.data = full
       /\ last.resp.total = Len(full)
       /\ last.resp.page = 1
       /\ last.resp.pages = 1

\* C24 (lenient coercion on update): a PUT or PATCH of a stored record whose
\* body gives wpm a value that holds no number is answered 200, and the wpm
\* of the record in the store, and in the loaded cache, is then 0.
C24_UpdateCoercion ==
  \A verb \in Verbs :
    (Completed(verb) /\ last.body = [wpm |-> NaN] /\ last.status # 404
       /\ last.err # "StoreUnavailable") =>
      LET id == FindByKey(last.pre.store, last.key)[1].id
      IN /\ last.status = 200
         /\ FindById(store, id) # <<>>
         /\ FindById(store, id)[1].wpm = 0
         /\ last.pre.isLoaded => MapHas(byId, id) /\ byId[id].wpm = 0

\* C26 (create defaults): a create whose body has a fresh spec and a wpm and no
\* product succeeds with 201, and the record it leaves in the store, and at
\* the end of the loaded cache, has product "" and 0 in method_calc,
\* initial_length, trade_unit and cat_product.
C26_CreateDefaults ==
  (Completed("create") /\ last.body.product = "" /\ last.body.spec # ""
     /\ FindOneBySpec(last.pre.store, last.body.spec) = <<>>
     /\ last.err # "StoreUnavailable") =>
    LET Defaults(m) ==
          /\ m.spec = last.body.spec
          /\ m.product = ""
          /\ m.method_calc = 0 /\ m.initial_length = 0
          /\ m.trade_unit = 0 /\ m.cat_product = 0
    IN /\ last.status = 201
       /\ FindOneBySpec(store, last.body.spec) # <<>>
       /\ Defaults(FindOneBySpec(store, last.body.spec)[1])
       /\ last.pre.isLoaded => data # <<>> /\ Defaults(data[Len(data)])
====
